---- MODULE Spec2Model ----
(***************************************************************************)
(* RedArrow: the controller (src/main.py RedArrowSystem), the broker       *)
(* gateway (src/data_collectors/broker_api.py KoreaInvestmentAPI) and the  *)
(* risk policy (src/risk_manager/risk_control.py RiskManager), together    *)
(* with the remote brokerage account they talk to.                         *)
(*                                                                         *)
(* Prices are integers (won).  Percentages of the risk configuration are   *)
(* kept in tenths of a percent (2.5 % = 25) and every comparison of a      *)
(* percentage is cross-multiplied, so no division is rounded.              *)
(***************************************************************************)
EXTENDS Integers, Sequences, FiniteSets, TLC

\* ------------------------------------------------------------------ bounds
\* the remote accepts at most MaxOrders orders in a run
MaxOrders == 2
\* the configured max_positions of a run is drawn from 1..MaxPositionsCfg
MaxPositionsCfg == 1

Codes == {"A", "B"}
Prices == {100, 103}
\* available-cash readings of the remote balance query
CashReadings == {0, 100}
\* time.time() when the program starts, in ticks
StartTime == 10
\* SpecSync: the wall clock advances by at most MaxElapsed ticks
MaxElapsed == 2
\* the market price of every code when the program starts
InitPrice == CHOOSE p \in Prices : \A q \in Prices : p <= q

\* ------------------------------------------------- program constants
initial_account_balance == 10000000
stop_loss_percent_x10 == 25
take_profit_percent_x10 == 50
trailing_stop_percent_x10 == 15
overnight_min_profit_x10 == 20
daily_loss_limit_x10 == -50
max_position_size == 1000000
risk_percent_x10 == 20
max_single_stock_ratio_x10 == 2
max_retries == 3
\* RateLimiter(min_interval=0.5), in ticks of 0.25 s
min_interval == 2
\* _load_token(): a credential within 300 s of its expiry is not reused
token_margin == 300
\* connect(): result.get('expires_in', 86400)
expires_in == 86400
buys_per_tick == 3
confirm_timeout_seconds == 20
confirm_interval_seconds == 2

trailing_stop == TRUE
\* config.get('overnight_hold', False)
overnight_hold_default == FALSE

TimesOfDay == {"pre", "am", "mid", "eod", "post"}
\* "pre" < 09:00 <= "am" < 15:00 <= "mid" < 15:20 <= "eod" <= 15:30 < "post"
TimeRank(t) ==
    CASE t = "pre" -> 0 [] t = "am" -> 1 [] t = "mid" -> 2
      [] t = "eod" -> 3 [] t = "post" -> 4

NoPos == [none |-> TRUE]
NoRow == [none |-> TRUE]
\* Python None / {} returned by a failed query
None == [ok |-> FALSE, rows |-> {}]
NoBalance == [ok |-> FALSE, available_amount |-> 0]
NoLog == [none |-> TRUE]
NoFile == [none |-> TRUE]
NoToken == [none |-> TRUE]
NoTrade == [code |-> "-", price |-> 0, quantity |-> 0, order_no |-> "",
            filled |-> FALSE, balance0 |-> 0, position0 |-> NoPos]
\* a thread that is making no gateway call
NoThread == [pc |-> "idle", kind |-> "-", attempt |-> 0, wake |-> 0,
             reply |-> "-", refused |-> 0, result |-> "-"]
NoCall == [side |-> "-", code |-> "-", success |-> FALSE, received |-> 0,
           order_no |-> ""]
Outcomes == {"ok", "lost", "neterr", "rate", "reject"}

VARIABLES
    pc,               \* position of the controller in __init__/run
    positions,        \* self.positions: code -> position or NoPos
    account_balance,  \* self.account_balance
    daily_pnl,        \* self.daily_pnl
    max_positions,    \* RiskManager.max_positions of this run
    overnight_hold,   \* RiskManager.overnight_hold of this run
    tod,              \* wall clock: phase of the day
    dayChanged,       \* wall-clock date differs from last_trade_date
    since_sync,       \* run(): current_time - last_sync_time at the next
                      \* periodic check: 0 = under 600 s (a reconciliation
                      \* ran in this tick or the loop has just started),
                      \* 1 = unknown, 2 = at least 600 s (the loop slept
                      \* 600 s since)
    cands,            \* run(): selected_stocks[:3] not yet traded
    todo,             \* monitor/close loops: snapshot entries not yet visited
    trade,            \* execute_trade(): stock, quantity, order and snapshot
    poll_elapsed,     \* execute_trade(): time.time() - start_time
    api_positions,    \* result of the controller's last get_positions()
    sync_log,         \* what the last reconciliation or balance refresh
                      \* started from and read (NoLog = neither just ran)
    last,             \* the controller's last log event
    last_call,        \* the last place_buy_order/place_sell_order call
    rprice,           \* remote: market price per code
    rhold,            \* remote: balance row per code (NoRow = no row)
    orders,           \* remote: the open (unfilled) orders
    norders,          \* remote: number of orders received so far
    now,              \* wall clock: time.time() / datetime.now(), in ticks
    last_call_time,   \* RateLimiter.last_call_time
    lock,             \* RateLimiter._lock: "free" or the thread holding it
    th,               \* gateway: per thread, the call it is making
    token_ok,         \* gateway: access_token is set and not near expiry
    since_dispatch,   \* remote: age of the last request received, cut
                      \* off at min_interval (min_interval when none)
    last_gap,         \* remote: time between the last two requests, cut
                      \* off at min_interval (min_interval when under two)
    record_gap,       \* RateLimiter: time between the last two values of
                      \* last_call_time, cut off at min_interval
    app_key,          \* KoreaInvestmentAPI.app_key of this run
    app_secret,       \* KoreaInvestmentAPI.app_secret of this run
    token_file,       \* content of .token_cache.json (NoFile = no file)
    access_token,     \* KoreaInvestmentAPI.access_token (NoToken = None)
    token_expiry,     \* KoreaInvestmentAPI.token_expiry (0 = None)
    connect_log,      \* what the last connect() started from and did
    risk_in,          \* RiskManager: the arguments of the last call
    risk_out          \* RiskManager: what that call returned

vars == <<pc, positions, account_balance, daily_pnl, max_positions,
          overnight_hold, tod,
          dayChanged, since_sync, cands, todo, trade, poll_elapsed,
          api_positions, sync_log, last, last_call, rprice, rhold, orders,
          norders, now, last_call_time, lock, th, token_ok, since_dispatch,
          last_gap, record_gap, app_key, app_secret, token_file,
          access_token, token_expiry, connect_log, risk_in, risk_out>>

\* the controller's state, the clock and the remote's state
ctl == <<pc, positions, account_balance, daily_pnl, since_sync, cands, todo,
         trade, poll_elapsed, api_positions, sync_log, last, last_call>>
clock == <<tod, dayChanged>>
\* the gateway's rate limiter, calls in progress and credential
gateway == <<last_call_time, lock, th, token_ok, since_dispatch, last_gap,
             record_gap>>
\* What the trading loop never moves: the configuration; the fine wall
\* clock, which the loop reads only to stamp entry_time; and the inside of
\* the gateway, whose calls are single steps of the loop.
\* the credential of the gateway and its cache file
cred == <<app_key, app_secret, token_file, access_token, token_expiry,
          connect_log>>
\* a call of the RiskManager looked at on its own
risk == <<risk_in, risk_out>>
\* the RiskManager configuration of a run
config == <<max_positions, overnight_hold>>
fixed == <<config, now, gateway, cred, risk>>
remote == <<rprice, rhold, orders, norders>>

Held == {c \in Codes : positions[c] # NoPos}

\* the threads that may call the gateway: the main loop and a scheduled job
Threads == {"main", "job"}

\* KoreaInvestmentAPI.__init__() and RateLimiter.__init__(), after connect()
GatewayInit ==
    /\ last_call_time = 0
    /\ lock = "free"
    /\ th = [t \in Threads |-> NoThread]
    /\ token_ok = TRUE
    /\ since_dispatch = min_interval
    /\ last_gap = min_interval
    /\ record_gap = min_interval

\* no RiskManager call is being looked at
RiskInit ==
    /\ risk_in = NoLog
    /\ risk_out = NoLog

\* the keys and secrets a run may be configured with
Keys == {"key1", "key2"}
Secrets == {"secret1", "secret2"}
\* A token is told by the key and the secret it was issued for: the
\* remote issues it to that pair, the token string itself is opaque.
Tokens == [app_key : Keys, app_secret : Secrets]

\* _save_token(): the record written to the cache file
saved_token(token, expiry, key) ==
    [access_token |-> token, expiry |-> expiry, app_key |-> key]

\* the credential after the first connect() of a run with no cache file
CredInit ==
    /\ app_key \in Keys
    /\ app_secret \in Secrets
    /\ app_key = "key1" /\ app_secret = "secret1"
    /\ access_token = [app_key |-> app_key, app_secret |-> app_secret]
    /\ token_expiry = StartTime + expires_in
    /\ token_file = saved_token(access_token, token_expiry, app_key)
    /\ connect_log = NoLog

Min(a, b) == IF a <= b THEN a ELSE b
Max(a, b) == IF a >= b THEN a ELSE b

\* ---------------------------------------------------------- RiskManager
\* ((current - entry) / entry) * 100 <= x10 / 10, for entry > 0
PnlLe(entry, current, x10) == (current - entry) * 1000 <= x10 * entry
PnlGe(entry, current, x10) == (current - entry) * 1000 >= x10 * entry

\* variant of check_stop_loss with < in place of <= at the threshold
check_stop_loss_strict(entry_price, current_price, ma_value) ==
    IF ~PnlGe(entry_price, current_price, -stop_loss_percent_x10)
    THEN [should_stop |-> TRUE, reason |-> "stop_loss_percent"]
    ELSE IF ma_value # 0 /\ current_price < ma_value
    THEN [should_stop |-> TRUE, reason |-> "ma_break"]
    ELSE [should_stop |-> FALSE, reason |-> "-"]

\* ma_value = 0 stands for ma_value = None
check_stop_loss(entry_price, current_price, ma_value) ==
    IF PnlLe(entry_price, current_price, -stop_loss_percent_x10)
    THEN [should_stop |-> TRUE, reason |-> "stop_loss_percent"]
    ELSE IF ma_value # 0 /\ current_price < ma_value
    THEN [should_stop |-> TRUE, reason |-> "ma_break"]
    ELSE [should_stop |-> FALSE, reason |-> "-"]

\* variant of check_take_profit that takes the size of the move, whatever
\* its sign
check_take_profit_abs(entry_price, current_price) ==
    \/ PnlGe(entry_price, current_price, take_profit_percent_x10)
    \/ PnlLe(entry_price, current_price, -take_profit_percent_x10)

check_take_profit(entry_price, current_price) ==
    PnlGe(entry_price, current_price, take_profit_percent_x10)

\* variant of calculate_trailing_stop without the test current > entry
calculate_trailing_stop_in_loss(entry_price, highest_price, current_price) ==
    IF ~trailing_stop THEN FALSE
    ELSE PnlLe(highest_price, current_price, -trailing_stop_percent_x10)

calculate_trailing_stop(entry_price, highest_price, current_price) ==
    IF ~trailing_stop THEN FALSE
    ELSE /\ PnlLe(highest_price, current_price, -trailing_stop_percent_x10)
         /\ current_price > entry_price

check_overnight_eligibility(hold, entry_price, current_price, market_status) ==
    IF ~hold THEN FALSE
    ELSE IF ~PnlGe(entry_price, current_price, overnight_min_profit_x10)
    THEN FALSE
    ELSE IF market_status = "volatile" THEN FALSE
    ELSE TRUE

\* variant of should_close_position that tests take-profit before stop-loss
should_close_position_profit_first(hold, entry_price, current_price, highest_price, ma_value, current_time) ==
    LET sl == check_stop_loss(entry_price, current_price, ma_value) IN
    IF check_take_profit(entry_price, current_price)
    THEN [should_close |-> TRUE, reason |-> "take_profit"]
    ELSE IF sl.should_stop
    THEN [should_close |-> TRUE, reason |-> "stop_loss"]
    ELSE IF calculate_trailing_stop(entry_price, highest_price, current_price)
    THEN [should_close |-> TRUE, reason |-> "trailing_stop"]
    ELSE IF /\ current_time # "-"
            /\ TimeRank(current_time) >= TimeRank("eod")
            /\ ~check_overnight_eligibility(hold, entry_price, current_price,
                                            "normal")
    THEN [should_close |-> TRUE, reason |-> "market_close"]
    ELSE [should_close |-> FALSE, reason |-> "-"]

\* current_time = "-" stands for None
should_close_position(hold, entry_price, current_price, highest_price, ma_value, current_time) ==
    LET sl == check_stop_loss(entry_price, current_price, ma_value) IN
    IF sl.should_stop
    THEN [should_close |-> TRUE, reason |-> "stop_loss"]
    ELSE IF check_take_profit(entry_price, current_price)
    THEN [should_close |-> TRUE, reason |-> "take_profit"]
    ELSE IF calculate_trailing_stop(entry_price, highest_price, current_price)
    THEN [should_close |-> TRUE, reason |-> "trailing_stop"]
    ELSE IF /\ current_time # "-"
            /\ TimeRank(current_time) >= TimeRank("eod")
            /\ ~check_overnight_eligibility(hold, entry_price, current_price,
                                            "normal")
    THEN [should_close |-> TRUE, reason |-> "market_close"]
    ELSE [should_close |-> FALSE, reason |-> "-"]

\* int(a / b) for b > 0: the fraction is dropped, towards zero
int_quotient(a, b) == IF a >= 0 THEN a \div b ELSE 0 - ((0 - a) \div b)

\* The quotient risk_amount / (stock_price * (stop_loss_percent / 100)) is
\* computed in doubles.  For these <<balance, stock_price, risk_x10>> the
\* real quotient is a whole number and the double lies just below it in
\* size (3000 * 0.02 / (6 * 0.025) gives 399.99999999999994, since the
\* double 6 * 0.025 is 0.15000000000000002), so that int() gives one less.
\* For every other input the model applies it to, the double quotient has
\* the whole part of the real one.
QuotientBelow == {<<3000, 6, 20>>, <<3000, 6, 10>>, <<3000, 6, 0 - 20>>, <<9900, 6, 20>>, <<9900, 6, 10>>, <<9900, 6, 0 - 20>>, <<3000, 6, 50>>, <<9900, 6, 50>>}

\* int(risk_amount / (stock_price * (stop_loss_percent / 100)))
risk_quantity(stock_price, balance, risk_x10) ==
    LET q == int_quotient(balance * risk_x10,
                          stock_price * stop_loss_percent_x10)
    IN  IF <<balance, stock_price, risk_x10>> \notin QuotientBelow THEN q
        ELSE IF q > 0 THEN q - 1 ELSE q + 1

calculate_position_size(stock_price, balance, risk_x10) ==
    IF balance <= 0 \/ stock_price <= 0
    THEN [quantity |-> 0, amount |-> 0]
    ELSE LET max_quantity == risk_quantity(stock_price, balance, risk_x10)
             max_position_quantity == max_position_size \div stock_price
             quantity == Min(max_quantity, max_position_quantity)
         IN  [quantity |-> quantity, amount |-> quantity * stock_price]

\* variant of check_daily_loss_limit with < in place of <= at the limit
check_daily_loss_limit_strict(pnl, balance) ==
    IF balance <= 0 THEN FALSE
    ELSE pnl * 1000 < daily_loss_limit_x10 * balance

check_daily_loss_limit(pnl, balance) ==
    IF balance <= 0 THEN FALSE
    ELSE pnl * 1000 <= daily_loss_limit_x10 * balance

check_max_positions(limit, current_positions) == current_positions < limit

\* variant of check_stock_concentration with < in place of <= at the cap
check_stock_concentration_strict(current_invested, new_order_amount, total_account_value) ==
    IF total_account_value <= 0
    THEN [allowed |-> FALSE, max_amount_x10 |-> 0]
    ELSE LET max_amount_x10 == total_account_value * max_single_stock_ratio_x10
         IN  [allowed |-> (current_invested + new_order_amount) * 10
                            < max_amount_x10,
              max_amount_x10 |-> max_amount_x10]

\* max_amount in tenths: total_account_value x max_single_stock_ratio
check_stock_concentration(current_invested, new_order_amount, total_account_value) ==
    IF total_account_value <= 0
    THEN [allowed |-> FALSE, max_amount_x10 |-> 0]
    ELSE LET max_amount_x10 == total_account_value * max_single_stock_ratio_x10
         IN  [allowed |-> (current_invested + new_order_amount) * 10
                            <= max_amount_x10,
              max_amount_x10 |-> max_amount_x10]

\* ----------------------------------------------------- KoreaInvestmentAPI
\* output1 of the remote balance inquiry: one row per code that has a row
Output1 ==
    {[code |-> c, quantity |-> rhold[c].qty, avg_price |-> rhold[c].avg,
      current_price |-> rprice[c]] : c \in {d \in Codes : rhold[d] # NoRow}}

\* variant of get_positions that keeps the rows of quantity 0 (sensitivity
\* of C9)
get_positions_unfiltered(data) ==
    IF ~data.ok THEN None ELSE [ok |-> TRUE, rows |-> data.rows]

\* data = None (the call failed) or the rows of output1
get_positions(data) ==
    IF ~data.ok THEN None
    ELSE [ok |-> TRUE, rows |-> {r \in data.rows : r.quantity > 0}]

\* the positions query of the controller: the call succeeds or fails
PositionsQuery(ok) ==
    get_positions(IF ok THEN [ok |-> TRUE, rows |-> Output1] ELSE None)

\* the balance query: fails, or reports an available-cash reading
get_account_balance(ok, reading) ==
    IF ok THEN [ok |-> TRUE, available_amount |-> reading] ELSE NoBalance

\* One place_buy_order call; outs[k] is what happens to attempt k-1:
\* "ok" the remote accepts and answers, "lost" the remote accepts and the
\* answer is lost to a timeout, "neterr" the request never arrives, "rate" a
\* rate-limit reply, "reject" any other error reply.  received counts the
\* orders the remote accepted.
RECURSIVE place_buy_order(_, _)
place_buy_order(outs, attempt) ==
    IF attempt >= max_retries THEN [success |-> FALSE, received |-> 0]
    ELSE LET o == outs[attempt + 1]
             got == IF o \in {"ok", "lost"} THEN 1 ELSE 0
         IN  IF o = "ok" THEN [success |-> TRUE, received |-> 1]
             ELSE IF o = "reject" THEN [success |-> FALSE, received |-> 0]
             ELSE IF attempt < max_retries - 1
             THEN LET r == place_buy_order(outs, attempt + 1)
                  IN  [success |-> r.success, received |-> r.received + got]
             ELSE [success |-> FALSE, received |-> got]

RECURSIVE place_sell_order(_, _)
place_sell_order(outs, attempt) ==
    IF attempt >= max_retries THEN [success |-> FALSE, received |-> 0]
    ELSE LET o == outs[attempt + 1]
             got == IF o \in {"ok", "lost"} THEN 1 ELSE 0
         IN  IF o = "ok" THEN [success |-> TRUE, received |-> 1]
             ELSE IF o = "reject" THEN [success |-> FALSE, received |-> 0]
             ELSE IF attempt < max_retries - 1
             THEN LET r == place_sell_order(outs, attempt + 1)
                  IN  [success |-> r.success, received |-> r.received + got]
             ELSE [success |-> FALSE, received |-> got]


\* the outcomes of the attempts of one call; attempts the loop never makes
\* are "ok"
RECURSIVE Canonical(_, _)
Canonical(outs, k) ==
    IF k > max_retries THEN TRUE
    ELSE IF outs[k] \in {"ok", "reject"}
    THEN \A j \in (k + 1)..max_retries : outs[j] = "ok"
    ELSE Canonical(outs, k + 1)

OutcomeSeqs == {outs \in [1..max_retries -> Outcomes] : Canonical(outs, 1)}

\* the outcomes of a step that places no order
NoAttempt == [k \in 1..max_retries |-> "ok"]

\* ----------------------------------------------------------------- remote
OpenOrder(c) == \E o \in orders : o.code = c

\* The remote's open orders after it accepted n orders of one call, numbered
\* from norders + 1; inflight records that an order of an earlier call for
\* the same code was still open when the call was made.
Received(n, side, c, qty) ==
    orders \cup {[no |-> norders + k, side |-> side, code |-> c, qty |-> qty,
                  inflight |-> OpenOrder(c)] : k \in 1..n}

\* Remote events are interleaved where the controller sleeps or is about to
\* read the remote; an event between two controller steps that do not read
\* the remote is the same event one step later.
Waiting == pc \in {"loop", "select", "confirm", "monitor", "closeall"}

\* the remote fills open order number i at the market price
RemoteFill(i) ==
    /\ Waiting
    /\ \E o \in orders : o.no = i
    /\ LET o == CHOOSE o \in orders : o.no = i
           c == o.code
           h == rhold[c]
           have == IF h = NoRow THEN 0 ELSE h.qty
           n == o.qty
       IN  /\ IF o.side = "buy"
              THEN rhold' = [rhold EXCEPT ![c] =
                       [qty |-> have + n,
                        avg |-> IF have = 0 THEN rprice[c]
                                ELSE (have * h.avg + n * rprice[c])
                                         \div (have + n)]]
              ELSE /\ have > 0
                   /\ rhold' = [rhold EXCEPT ![c] =
                          [qty |-> have - Min(n, have), avg |-> h.avg]]
           /\ orders' = orders \ {o}
    /\ UNCHANGED <<ctl, fixed, clock, rprice, norders>>

PriceMove(c, p) ==
    /\ Waiting
    /\ p # rprice[c]
    /\ rprice' = [rprice EXCEPT ![c] = p]
    /\ UNCHANGED <<ctl, fixed, clock, rhold, orders, norders>>

\* The wall clock reaches a later phase of the same day.  A tick is short
\* against the phases of the day: the clock moves while the loop sleeps, so
\* current_time and datetime.now() of one tick are both tod.  The loop
\* sleeps at most 600 s, so the first tick of a day is before the open.
TimePass(t) ==
    /\ pc = "loop"
    /\ ~dayChanged
    /\ TimeRank(t) > TimeRank(tod)
    /\ tod' = t
    /\ UNCHANGED <<ctl, fixed, dayChanged, remote>>

\* the wall clock passes midnight
Midnight ==
    /\ pc = "loop"
    /\ ~dayChanged
    /\ tod' = "pre"
    /\ dayChanged' = TRUE
    /\ UNCHANGED <<ctl, fixed, remote>>

\* ------------------------------------------------------- RedArrowSystem
Init ==
    /\ pc = "start"
    /\ positions = [c \in Codes |-> NoPos]
    /\ account_balance = initial_account_balance
    /\ daily_pnl = 0
    /\ max_positions \in 1..MaxPositionsCfg
    /\ overnight_hold = overnight_hold_default
    /\ tod \in TimesOfDay
    /\ dayChanged = FALSE
    /\ since_sync = 0
    /\ cands = <<>>
    /\ todo = {}
    /\ trade = NoTrade
    /\ poll_elapsed = 0
    /\ api_positions = None
    /\ sync_log = NoLog
    /\ last = "init"
    /\ last_call = NoCall
    /\ rprice = [c \in Codes |-> InitPrice]
    /\ rhold = [c \in Codes |-> NoRow]
    /\ orders = {}
    /\ norders = 0
    /\ now = StartTime
    /\ GatewayInit
    /\ CredInit
    /\ RiskInit

\* The outcomes of the queries of a step: a failed balance query carries no
\* reading, and a step that makes no query has no query outcome (the inputs
\* a step does not read are fixed).
Query(asked, bal_ok, reading, pos_ok) ==
    /\ bal_ok \/ reading = 0
    /\ asked \/ (~bal_ok /\ ~pos_ok)

\* variant of sync_balance that lets a reading of 0 overwrite the cash
\* (sensitivity of C14)
sync_balance_zero_overwrites(balance, balance_info) ==
    IF balance_info.ok THEN balance_info.available_amount ELSE balance

\* sync_positions_with_account(): the cash snapshot; also the hourly refresh
sync_balance(balance, balance_info) ==
    IF balance_info.ok /\ balance_info.available_amount > 0
    THEN balance_info.available_amount
    ELSE balance

\* variant of sync_positions that starts highest_price at the average price
\* (sensitivity of C12)
sync_positions_entry_as_highest(pos, api) ==
    IF ~api.ok \/ api.rows = {} THEN pos
    ELSE [c \in Codes |->
            IF \E r \in api.rows : r.code = c
            THEN LET r == CHOOSE r \in api.rows : r.code = c
                 IN  [entry_price |-> r.avg_price, quantity |-> r.quantity,
                      highest_price |-> r.avg_price,
                      entry_time |-> now, order_no |-> "SYNCED"]
            ELSE NoPos]

\* variant of sync_positions that takes a failed query for an account that
\* holds nothing (sensitivity of C11)
sync_positions_failed_is_empty(pos, api) ==
    IF ~api.ok THEN [c \in Codes |-> NoPos]
    ELSE IF api.rows = {} THEN pos
    ELSE [c \in Codes |->
            IF \E r \in api.rows : r.code = c
            THEN LET r == CHOOSE r \in api.rows : r.code = c
                 IN  [entry_price |-> r.avg_price, quantity |-> r.quantity,
                      highest_price |-> r.current_price,
                      entry_time |-> now, order_no |-> "SYNCED"]
            ELSE NoPos]

\* sync_positions_with_account(): the ledger
sync_positions(pos, api) ==
    IF ~api.ok \/ api.rows = {} THEN pos
    ELSE [c \in Codes |->
            IF \E r \in api.rows : r.code = c
            THEN LET r == CHOOSE r \in api.rows : r.code = c
                 IN  [entry_price |-> r.avg_price, quantity |-> r.quantity,
                      highest_price |-> r.current_price,
                      entry_time |-> now, order_no |-> "SYNCED"]
            ELSE NoPos]

\* sync_positions_with_account()
Sync(bal_ok, reading, pos_ok) ==
    LET api == PositionsQuery(pos_ok)
        balance_info == get_account_balance(bal_ok, reading)
    IN
    /\ account_balance' = sync_balance(account_balance, balance_info)
    /\ api_positions' = api
    /\ sync_log' = [positions0 |-> positions, balance0 |-> account_balance,
                    balance_info |-> balance_info]
    /\ positions' = sync_positions(positions, api)
    /\ last' = "sync"

\* __init__(): the reconciliation that ends construction; run() then sets
\* last_trade_date and last_sync_time
Construct(bal_ok, reading, pos_ok) ==
    /\ pc = "start"
    /\ Query(TRUE, bal_ok, reading, pos_ok)
    /\ Sync(bal_ok, reading, pos_ok)
    /\ pc' = "loop"
    /\ UNCHANGED <<daily_pnl, since_sync, cands, todo, trade, poll_elapsed,
                   last_call, fixed, clock, remote>>

is_market_open == tod \in {"am", "mid", "eod"}

\* run(): top of the loop, with the new-trading-day reset and reconciliation
TickBegin(bal_ok, reading, pos_ok) ==
    /\ pc = "loop"
    /\ Query(dayChanged, bal_ok, reading, pos_ok)
    /\ IF dayChanged
       THEN /\ daily_pnl' = 0
            /\ Sync(bal_ok, reading, pos_ok)
            /\ since_sync' = 0
       ELSE /\ last' = "tick"
            /\ api_positions' = None
            /\ sync_log' = NoLog
            /\ UNCHANGED <<daily_pnl, account_balance, positions, since_sync>>
    /\ dayChanged' = FALSE
    /\ pc' = "gate"
    /\ UNCHANGED <<cands, todo, trade, poll_elapsed, last_call, fixed,
                   tod, remote>>

\* variant of Gate without the daily-loss gate
Gate_without_daily_limit ==
    /\ pc = "gate"
    /\ IF ~is_market_open
       THEN pc' = "loop" /\ since_sync' = 2 /\ last' = "closed"
       ELSE pc' = "sync" /\ last' = "open" /\ UNCHANGED since_sync
    /\ api_positions' = None
    /\ sync_log' = NoLog
    /\ UNCHANGED <<positions, account_balance, daily_pnl, cands, todo, trade,
                   poll_elapsed, last_call, fixed, clock, remote>>

\* run(): the market-hours gate and the daily-loss gate; both sleep 600 s
Gate ==
    /\ pc = "gate"
    /\ IF ~is_market_open
       THEN pc' = "loop" /\ since_sync' = 2 /\ last' = "closed"
       ELSE IF check_daily_loss_limit(daily_pnl, account_balance)
       THEN pc' = "loop" /\ since_sync' = 2 /\ last' = "daily_limit"
       ELSE pc' = "sync" /\ last' = "open" /\ UNCHANGED since_sync
    /\ api_positions' = None
    /\ sync_log' = NoLog
    /\ UNCHANGED <<positions, account_balance, daily_pnl, cands, todo, trade,
                   poll_elapsed, last_call, fixed, clock, remote>>

\* run(): the periodic reconciliation; due = at least 600 s have passed
\* since last_sync_time.  The next periodic check is in a later tick, after
\* a sleep of 60 s and ticks of unknown length.
PeriodicSync(due, bal_ok, reading, pos_ok) ==
    /\ pc = "sync"
    /\ since_sync = 0 => ~due
    /\ since_sync = 2 => due
    /\ Query(due, bal_ok, reading, pos_ok)
    /\ IF due
       THEN Sync(bal_ok, reading, pos_ok)
       ELSE /\ api_positions' = None
            /\ sync_log' = NoLog
            /\ last' = "no_sync"
            /\ UNCHANGED <<account_balance, positions>>
    /\ since_sync' = 1
    /\ pc' = "select"
    /\ UNCHANGED <<daily_pnl, cands, todo, trade, poll_elapsed, last_call,
                   fixed, clock, remote>>

\* the sequences of distinct codes of length at most 3
Selections ==
    {q \in UNION {[1..n -> Codes] : n \in 0..Min(3, Cardinality(Codes))} :
        \A i, j \in DOMAIN q : i # j => q[i] # q[j]}

\* variant of top_selected that trades every selected stock
top_selected_all(sel) == sel

\* run(): selected_stocks[:3]
top_selected(sel) == SubSeq(sel, 1, Min(buys_per_tick, Len(sel)))

\* run(): the hourly balance refresh, then collect_market_data() and
\* select_stocks(); each candidate carries the price quoted in this tick
Select(on_hour, bal_ok, reading, sel) ==
    /\ pc = "select"
    /\ Query(on_hour, bal_ok, reading, on_hour)
    /\ TimeRank(tod) < TimeRank("mid") \/ sel = <<>>
    /\ LET balance_info == get_account_balance(bal_ok, reading) IN
       IF on_hour
       THEN /\ account_balance' = sync_balance(account_balance, balance_info)
            /\ sync_log' = [positions0 |-> positions,
                            balance0 |-> account_balance,
                            balance_info |-> balance_info]
       ELSE /\ account_balance' = account_balance
            /\ sync_log' = NoLog
    /\ cands' = IF TimeRank(tod) < TimeRank("mid")
                THEN [i \in DOMAIN top_selected(sel) |->
                         [code |-> sel[i], price |-> rprice[sel[i]]]]
                ELSE <<>>
    /\ pc' = "trade"
    /\ last' = "selected"
    /\ api_positions' = None
    /\ UNCHANGED <<positions, daily_pnl, since_sync, todo, trade, poll_elapsed,
                   last_call, fixed, clock, remote>>

\* variant of confirmed_position that records the requested price and
\* quantity (sensitivity of C4)
confirmed_position_requested(stock, found, order_no) ==
    [entry_price |-> stock.price, quantity |-> stock.quantity,
     highest_price |-> stock.price, entry_time |-> now,
     order_no |-> order_no]

\* execute_trade(): the position written when the poll finds the code
confirmed_position(stock, found, order_no) ==
    [entry_price |-> found.avg_price, quantity |-> found.quantity,
     highest_price |-> found.current_price, entry_time |-> now,
     order_no |-> order_no]

\* execute_trade(): the cash debited when the poll finds the code
trade_amount(stock, found) == found.quantity * found.avg_price

\* variant of found_position that takes a failed query for a fill of the
\* requested order (sensitivity of C5)
found_position_failed_is_fill(api, c) ==
    IF ~api.ok
    THEN [code |-> c, quantity |-> trade.quantity, avg_price |-> trade.price,
          current_price |-> trade.price]
    ELSE IF \E r \in api.rows : r.code = c
    THEN CHOOSE r \in api.rows : r.code = c
    ELSE NoRow

\* execute_trade(): next(p for p in api_positions if p['code'] == code),
\* after the isinstance(api_positions, list) test
found_position(api, c) ==
    IF api.ok /\ \E r \in api.rows : r.code = c
    THEN CHOOSE r \in api.rows : r.code = c
    ELSE NoRow

\* variant of poll_step without the isinstance test: the search runs on
\* whatever get_positions() returned
poll_step_unguarded(api) == IF ~api.ok THEN "raise" ELSE "search"

\* execute_trade(), confirmation poll: what is done with the result of
\* get_positions().  None is not a list: the poll sleeps and asks again
\* ("retry"); a list is searched for the code ("search").  Iterating over
\* None would raise TypeError ("raise"), which nothing catches before
\* run()'s `except Exception`, after the loop.
poll_step(api) == IF ~api.ok THEN "retry" ELSE "search"

\* variant of poll_sleep in which a failed query is asked again at once
poll_sleep_failed_free(elapsed, api) ==
    IF ~api.ok THEN elapsed
    ELSE Min(elapsed + confirm_interval_seconds, confirm_timeout_seconds)

\* execute_trade(), confirmation poll: time.time() - start_time after the
\* time_module.sleep(confirm_interval_seconds) that follows a failed query
\* and a query that does not list the code
poll_sleep(elapsed, api) ==
    Min(elapsed + confirm_interval_seconds, confirm_timeout_seconds)

\* what a place_*_order call leaves at the remote and returns
OrderCall(side, c, qty, r) ==
    /\ norders + r.received <= MaxOrders
    /\ orders' = Received(r.received, side, c, qty)
    /\ norders' = norders + r.received
    /\ last_call' = [side |-> side, code |-> c, success |-> r.success,
                     received |-> r.received,
                     order_no |-> IF r.success
                                  THEN ToString(norders + r.received)
                                  ELSE ""]

\* variant of after_buy_call that polls whatever the call returned
after_buy_call_always_polls(r) == "confirm"

\* execute_trade(): `if result.get('success'):` starts the confirmation
\* poll; otherwise the failure is logged and execute_trade returns
after_buy_call(r) == IF r.success THEN "confirm" ELSE "trade"

\* run(): the next selected stock; execute_trade() up to the order submission
ExecuteTrade(outs) ==
    /\ pc = "trade"
    /\ cands # <<>>
    /\ LET stock == Head(cands)
           position == calculate_position_size(stock.price, account_balance,
                                               risk_percent_x10)
           r == place_buy_order(outs, 0)
           skip(why) == /\ outs = NoAttempt
                        /\ last' = why
                        /\ cands' = Tail(cands)
                        /\ trade' = NoTrade
                        /\ last_call' = NoCall
                        /\ UNCHANGED <<pc, orders, norders>>
       IN  IF ~check_max_positions(max_positions, Cardinality(Held))
           THEN skip("max_positions")
           ELSE IF account_balance <= 0
           THEN skip("no_balance")
           ELSE IF position.quantity <= 0
           THEN skip("zero_quantity")
           ELSE /\ OrderCall("buy", stock.code, position.quantity, r)
                /\ trade' = [code |-> stock.code, price |-> stock.price,
                             quantity |-> position.quantity,
                             order_no |-> last_call'.order_no,
                             filled |-> FALSE,
                             balance0 |-> account_balance,
                             position0 |-> positions[stock.code]]
                /\ pc' = after_buy_call(r)
                /\ IF r.success
                   THEN last' = "buy_submitted" /\ UNCHANGED cands
                   ELSE last' = "buy_failed" /\ cands' = Tail(cands)
    /\ poll_elapsed' = 0
    /\ api_positions' = None
    /\ sync_log' = NoLog
    /\ UNCHANGED <<positions, account_balance, daily_pnl, since_sync, todo,
                   fixed, clock, rprice, rhold>>

\* execute_trade(): one iteration of the confirmation poll
ExecuteTradePoll(pos_ok) ==
    /\ pc = "confirm"
    /\ poll_elapsed < confirm_timeout_seconds
    /\ LET api == PositionsQuery(pos_ok)
           found == found_position(api, trade.code)
           stock == [code |-> trade.code, price |-> trade.price,
                     quantity |-> trade.quantity]
       IN  /\ api_positions' = api
           /\ sync_log' = NoLog
           /\ IF poll_step(api) = "raise"
              THEN /\ pc' = "stopped"
                   /\ last' = "error"
                   /\ UNCHANGED <<positions, account_balance, trade, cands,
                                  poll_elapsed>>
              ELSE IF found # NoRow
              THEN /\ positions' = [positions EXCEPT ![trade.code] =
                          confirmed_position(stock, found, trade.order_no)]
                   /\ account_balance' =
                          account_balance - trade_amount(stock, found)
                   /\ trade' = [trade EXCEPT !.filled = TRUE]
                   /\ last' = "buy_confirmed"
                   /\ pc' = "trade"
                   /\ cands' = Tail(cands)
                   /\ poll_elapsed' = 0
              ELSE /\ poll_elapsed' = poll_sleep(poll_elapsed, api)
                   /\ last' = IF api.ok THEN "poll_absent" ELSE "poll_failed"
                   /\ UNCHANGED <<positions, account_balance, trade, pc,
                                  cands>>
    /\ UNCHANGED <<daily_pnl, since_sync, todo, last_call, fixed,
                   clock, remote>>

\* execute_trade(): the poll window is over and the order is unconfirmed
ExecuteTradeTimeout ==
    /\ pc = "confirm"
    /\ poll_elapsed >= confirm_timeout_seconds
    /\ last' = "buy_unconfirmed"
    /\ pc' = "trade"
    /\ cands' = Tail(cands)
    /\ poll_elapsed' = 0
    /\ api_positions' = None
    /\ sync_log' = NoLog
    /\ UNCHANGED <<positions, account_balance, daily_pnl, since_sync, todo,
                   trade, last_call, fixed, clock, remote>>

\* run(): after monitor_positions(), close_all_positions() at or after 15:20
\* when the ledger is not empty, then sleep(60)
AfterMonitor ==
    IF TimeRank(tod) >= TimeRank("eod") /\ Held # {}
    THEN pc' = "closeall" /\ todo' = Held
    ELSE pc' = "loop" /\ todo' = {}

\* run(): the buys are done; monitor_positions() when the ledger is not empty
TradeDone ==
    /\ pc = "trade"
    /\ cands = <<>>
    /\ IF Held # {}
       THEN pc' = "monitor" /\ todo' = Held
       ELSE AfterMonitor
    /\ last' = "traded"
    /\ trade' = NoTrade
    /\ last_call' = NoCall
    /\ api_positions' = None
    /\ sync_log' = NoLog
    /\ UNCHANGED <<positions, account_balance, daily_pnl, since_sync, cands,
                   poll_elapsed, fixed, clock, remote>>

\* variant of exit_pnl that books the proceeds of the sale
exit_pnl_proceeds(position, current_price) ==
    position.quantity * current_price

\* monitor_positions() / close_all_positions(): the booking of an exit
exit_pnl(position, current_price) ==
    position.quantity * current_price
        - position.quantity * position.entry_price

exit_proceeds(position, current_price) == position.quantity * current_price

\* monitor_positions(): the ledger after a successful place_sell_order
monitor_after_sell(pos, c) == [pos EXCEPT ![c] = NoPos]

\* monitor_positions(): the highest_price update
update_highest(position, current_price) ==
    IF current_price > position.highest_price
    THEN [position EXCEPT !.highest_price = current_price]
    ELSE position

\* monitor_positions(): one iteration of the loop over the snapshot
MonitorPosition(c, price_ok, outs) ==
    /\ pc = "monitor"
    /\ c \in todo
    /\ todo' = todo \ {c}
    /\ IF ~price_ok
       THEN /\ outs = NoAttempt
            /\ last' = "price_failed"
            /\ last_call' = NoCall
            /\ UNCHANGED <<positions, account_balance, daily_pnl, orders,
                           norders>>
       ELSE LET current_price == rprice[c]
                position == update_highest(positions[c], current_price)
                sc == should_close_position(overnight_hold,
                          position.entry_price, current_price,
                          position.highest_price, 0, tod)
                r == place_sell_order(outs, 0)
            IN  IF ~sc.should_close
                THEN /\ outs = NoAttempt
                     /\ positions' = [positions EXCEPT ![c] = position]
                     /\ last' = "hold"
                     /\ last_call' = NoCall
                     /\ UNCHANGED <<account_balance, daily_pnl, orders,
                                    norders>>
                ELSE /\ OrderCall("sell", c, position.quantity, r)
                     /\ IF r.success
                        THEN /\ daily_pnl' =
                                    daily_pnl + exit_pnl(position, current_price)
                             /\ account_balance' = account_balance
                                    + exit_proceeds(position, current_price)
                             /\ positions' = monitor_after_sell(
                                    [positions EXCEPT ![c] = position], c)
                             /\ last' = "sell_booked"
                        ELSE /\ positions' = [positions EXCEPT ![c] = position]
                             /\ last' = "sell_failed"
                             /\ UNCHANGED <<account_balance, daily_pnl>>
    /\ api_positions' = None
    /\ sync_log' = NoLog
    /\ UNCHANGED <<pc, since_sync, cands, trade, poll_elapsed, fixed,
                   clock, rprice, rhold>>

\* run(): monitor_positions() has returned
MonitorDone ==
    /\ pc = "monitor"
    /\ todo = {}
    /\ AfterMonitor
    /\ last' = "monitored"
    /\ last_call' = NoCall
    /\ api_positions' = None
    /\ sync_log' = NoLog
    /\ UNCHANGED <<positions, account_balance, daily_pnl, since_sync, cands,
                   trade, poll_elapsed, fixed, clock, remote>>

\* close_all_positions(): the ledger after a successful place_sell_order
close_after_sell(pos, c) == [pos EXCEPT ![c] = NoPos]

\* close_all_positions(): one iteration of the loop over the snapshot
ClosePosition(c, price_ok, outs) ==
    /\ pc = "closeall"
    /\ c \in todo
    /\ todo' = todo \ {c}
    /\ LET position == positions[c]
           current_price == IF price_ok THEN rprice[c]
                            ELSE position.entry_price
           r == place_sell_order(outs, 0)
       IN  /\ OrderCall("sell", c, position.quantity, r)
           /\ IF r.success
              THEN /\ daily_pnl' = daily_pnl + exit_pnl(position, current_price)
                   /\ account_balance' = account_balance
                          + exit_proceeds(position, current_price)
                   /\ positions' = close_after_sell(positions, c)
                   /\ last' = "sell_booked"
              ELSE /\ last' = "sell_failed"
                   /\ UNCHANGED <<positions, account_balance, daily_pnl>>
    /\ api_positions' = None
    /\ sync_log' = NoLog
    /\ UNCHANGED <<pc, since_sync, cands, trade, poll_elapsed, fixed,
                   clock, rprice, rhold>>

\* run(): close_all_positions() has returned; sleep(60)
CloseDone ==
    /\ pc = "closeall"
    /\ todo = {}
    /\ pc' = "loop"
    /\ last' = "closed_all"
    /\ last_call' = NoCall
    /\ api_positions' = None
    /\ sync_log' = NoLog
    /\ UNCHANGED <<positions, account_balance, daily_pnl, since_sync, cands,
                   todo, trade, poll_elapsed, fixed, clock, remote>>

Next ==
    \/ \E b, p \in BOOLEAN, x \in CashReadings : Construct(b, x, p)
    \/ \E b, p \in BOOLEAN, x \in CashReadings : TickBegin(b, x, p)
    \/ Gate
    \/ \E d, b, p \in BOOLEAN, x \in CashReadings : PeriodicSync(d, b, x, p)
    \/ \E h, b \in BOOLEAN, x \in CashReadings, q \in Selections :
           Select(h, b, x, q)
    \/ \E outs \in OutcomeSeqs : ExecuteTrade(outs)
    \/ \E p \in BOOLEAN : ExecuteTradePoll(p)
    \/ ExecuteTradeTimeout
    \/ TradeDone
    \/ \E c \in Codes, p \in BOOLEAN, outs \in OutcomeSeqs :
           MonitorPosition(c, p, outs)
    \/ MonitorDone
    \/ \E c \in Codes, p \in BOOLEAN, outs \in OutcomeSeqs :
           ClosePosition(c, p, outs)
    \/ CloseDone
    \/ \E i \in 1..MaxOrders : RemoteFill(i)
    \/ \E c \in Codes, p \in Prices : PriceMove(c, p)
    \/ \E t \in TimesOfDay : TimePass(t)
    \/ Midnight

Spec == Init /\ [][Next]_vars

\* the trading loop of a run configured with overnight_hold = True
InitOvernight ==
    /\ pc = "start"
    /\ positions = [c \in Codes |-> NoPos]
    /\ account_balance = initial_account_balance
    /\ daily_pnl = 0
    /\ max_positions \in 1..MaxPositionsCfg
    /\ overnight_hold = TRUE
    /\ tod \in TimesOfDay
    /\ dayChanged = FALSE
    /\ since_sync = 0
    /\ cands = <<>>
    /\ todo = {}
    /\ trade = NoTrade
    /\ poll_elapsed = 0
    /\ api_positions = None
    /\ sync_log = NoLog
    /\ last = "init"
    /\ last_call = NoCall
    /\ rprice = [c \in Codes |-> InitPrice]
    /\ rhold = [c \in Codes |-> NoRow]
    /\ orders = {}
    /\ norders = 0
    /\ now = StartTime
    /\ GatewayInit
    /\ CredInit
    /\ RiskInit

SpecOvernight == InitOvernight /\ [][Next]_vars

\* the trading loop with the controller's thread always scheduled while a
\* confirmation poll is under way
SpecPoll == Spec /\ WF_vars(\E p \in BOOLEAN : ExecuteTradePoll(p)) /\ WF_vars(ExecuteTradeTimeout)

\* the trading loop of a run configured with room for one position more,
\* during one morning session (09:00 to 15:00): the clock stays at "am",
\* so that the end-of-day liquidation and the day rollover do not occur
InitMorning ==
    /\ pc = "start"
    /\ positions = [c \in Codes |-> NoPos]
    /\ account_balance = initial_account_balance
    /\ daily_pnl = 0
    /\ max_positions = MaxPositionsCfg + 1
    /\ overnight_hold = overnight_hold_default
    /\ tod = "am"
    /\ dayChanged = FALSE
    /\ since_sync = 0
    /\ cands = <<>>
    /\ todo = {}
    /\ trade = NoTrade
    /\ poll_elapsed = 0
    /\ api_positions = None
    /\ sync_log = NoLog
    /\ last = "init"
    /\ last_call = NoCall
    /\ rprice = [c \in Codes |-> InitPrice]
    /\ rhold = [c \in Codes |-> NoRow]
    /\ orders = {}
    /\ norders = 0
    /\ now = StartTime
    /\ GatewayInit
    /\ CredInit
    /\ RiskInit

NextMorning ==
    \/ \E b, p \in BOOLEAN, x \in CashReadings : Construct(b, x, p)
    \/ \E b, p \in BOOLEAN, x \in CashReadings : TickBegin(b, x, p)
    \/ Gate
    \/ \E d, b, p \in BOOLEAN, x \in CashReadings : PeriodicSync(d, b, x, p)
    \/ \E h, b \in BOOLEAN, x \in CashReadings, q \in Selections :
           Select(h, b, x, q)
    \/ \E outs \in OutcomeSeqs : ExecuteTrade(outs)
    \/ \E p \in BOOLEAN : ExecuteTradePoll(p)
    \/ ExecuteTradeTimeout
    \/ TradeDone
    \/ \E c \in Codes, p \in BOOLEAN, outs \in OutcomeSeqs :
           MonitorPosition(c, p, outs)
    \/ MonitorDone
    \/ \E i \in 1..MaxOrders : RemoteFill(i)
    \/ \E c \in Codes, p \in Prices : PriceMove(c, p)

SpecMorning == InitMorning /\ [][NextMorning]_vars

\* the trading loop during one day at fixed prices, with selections of up
\* to MaxSelected stocks; the ranking that select_stocks() works from comes
\* from the remote and is not checked for repeated codes
MaxSelected == 4

Rankings == UNION {[1..n -> Codes] : n \in 0..MaxSelected}

NextBuys ==
    \/ \E b, p \in BOOLEAN, x \in CashReadings : Construct(b, x, p)
    \/ \E b, p \in BOOLEAN, x \in CashReadings : TickBegin(b, x, p)
    \/ Gate
    \/ \E d, b, p \in BOOLEAN, x \in CashReadings : PeriodicSync(d, b, x, p)
    \/ \E h, b \in BOOLEAN, x \in CashReadings, q \in Rankings :
           Select(h, b, x, q)
    \/ \E outs \in OutcomeSeqs : ExecuteTrade(outs)
    \/ \E p \in BOOLEAN : ExecuteTradePoll(p)
    \/ ExecuteTradeTimeout
    \/ TradeDone
    \/ \E c \in Codes, p \in BOOLEAN, outs \in OutcomeSeqs :
           MonitorPosition(c, p, outs)
    \/ MonitorDone
    \/ \E i \in 1..MaxOrders : RemoteFill(i)
    \/ \E t \in TimesOfDay : TimePass(t)

SpecBuys == Init /\ [][NextBuys]_vars

\* ------------------------------------------------- reconciliation alone
\* sync_positions_with_account() run again and again (at construction, at a
\* new day, periodically) while the wall clock advances and the remote
\* account, which may hold rows from before the run, does not change.
SyncHoldings ==
    {NoRow, [qty |-> 0, avg |-> InitPrice],
     [qty |-> max_position_size \div InitPrice, avg |-> InitPrice]}

InitSync ==
    /\ pc = "start"
    /\ positions = [c \in Codes |-> NoPos]
    /\ account_balance = initial_account_balance
    /\ daily_pnl = 0
    /\ max_positions \in 1..MaxPositionsCfg
    /\ overnight_hold = overnight_hold_default
    /\ tod = "pre"
    /\ dayChanged = FALSE
    /\ since_sync = 0
    /\ cands = <<>>
    /\ todo = {}
    /\ trade = NoTrade
    /\ poll_elapsed = 0
    /\ api_positions = None
    /\ sync_log = NoLog
    /\ last = "init"
    /\ last_call = NoCall
    /\ rprice \in [Codes -> Prices]
    /\ rhold \in [Codes -> SyncHoldings]
    /\ orders = {}
    /\ norders = 0
    /\ now = StartTime
    /\ GatewayInit
    /\ CredInit
    /\ RiskInit

\* one run of sync_positions_with_account()
SyncRun(bal_ok, reading, pos_ok) ==
    /\ Query(TRUE, bal_ok, reading, pos_ok)
    /\ Sync(bal_ok, reading, pos_ok)
    /\ pc' = "loop"
    /\ UNCHANGED <<daily_pnl, since_sync, cands, todo, trade, poll_elapsed,
                   last_call, fixed, clock, remote>>

\* the wall clock advances between two runs
Elapse ==
    /\ now < StartTime + MaxElapsed
    /\ now' = now + 1
    /\ UNCHANGED <<ctl, config, clock, remote, gateway, cred, risk>>

NextSync ==
    \/ \E b, p \in BOOLEAN, x \in CashReadings : SyncRun(b, x, p)
    \/ Elapse

SpecSync == InitSync /\ [][NextSync]_vars

\* ==================================================== the gateway alone
\* KoreaInvestmentAPI seen from inside: the threads of the process call
\* _call_api() and place_buy_order()/place_sell_order(), which share one
\* RateLimiter and one credential, while the wall clock advances.  Each
\* call is followed attempt by attempt; the answer of the remote to each
\* request is an input.

\* how long the gateway is followed, in ticks
MaxTicks == 26

\* The calls a thread makes: "api" is _call_api(), "order" is
\* place_buy_order() / place_sell_order(), "acquire" is a bare
\* RateLimiter.acquire() / wait().  The trading loop is the only caller
\* of the gateway's functions; the other thread contends for the limiter.
Kinds(t) == IF t = "main" THEN {"api", "order", "acquire"} ELSE {"acquire"}

\* The answers to one request: those of Outcomes ("lost" is a timeout,
\* "neterr" a connection error), a refusal of the credential (HTTP 401),
\* and "garbled", a 200 answer whose body is not a JSON object, on which
\* data.get() raises.
Replies == Outcomes \cup {"auth", "garbled"}

\* one second, in ticks
Second == 2 * min_interval

\* backoff_time = min(2 ** attempt, 8) seconds
backoff_time(attempt) == Min(2 ^ attempt, 8) * Second

\* What _call_api() does with the answer to attempt number `attempt`
\* (counted from 0): "return_ok", "return_fail" or "retry".
call_api_reaction(reply, attempt) ==
    CASE reply = "ok" -> "return_ok"
      [] reply \in {"rate", "lost", "neterr"} ->
            IF attempt + 1 < max_retries THEN "retry" ELSE "return_fail"
      [] OTHER -> "return_fail"

\* variant of place_order_reaction that sends the order again after every
\* answer that is not a success
place_order_reaction_retry_all(reply, attempt) ==
    CASE reply = "ok" -> "return_ok"
      [] OTHER -> IF attempt < max_retries - 1 THEN "retry" ELSE "return_fail"

\* What place_buy_order() / place_sell_order() do with it: every
\* exception is retried, whatever it is.
place_order_reaction(reply, attempt) ==
    CASE reply = "ok" -> "return_ok"
      [] reply \in {"rate", "lost", "neterr", "garbled"} ->
            IF attempt < max_retries - 1 THEN "retry" ELSE "return_fail"
      [] OTHER -> "return_fail"

reaction(kind, reply, attempt) ==
    IF kind = "api" THEN call_api_reaction(reply, attempt)
    ELSE place_order_reaction(reply, attempt)

\* a request reaches the remote at time `now`
Dispatch ==
    /\ since_dispatch' = 0
    /\ last_gap' = since_dispatch

NoDispatch == UNCHANGED <<since_dispatch, last_gap>>

\* the rest of the program does not move while the gateway is followed
outside == <<ctl, config, clock, remote, cred, risk>>

\* The step after RateLimiter.wait() has returned at attempt `a`: the
\* backoff sleep of a retry, or straight on.  _call_api() receives its
\* headers from the caller, the order functions build them per attempt.
after_wait(r) ==
    IF r.kind = "acquire"
    THEN [r EXCEPT !.pc = "done", !.result = "ok", !.wake = 0]
    ELSE IF r.attempt > 0
    THEN [r EXCEPT !.pc = "backoff", !.reply = "-",
                   !.wake = now + backoff_time(r.attempt)]
    ELSE [r EXCEPT !.pc = IF r.kind = "api" THEN "send" ELSE "headers",
                   !.reply = "-", !.wake = 0]

\* a thread starts a call
CallStart(t, kind) ==
    /\ th[t].pc = "idle"
    /\ th' = [th EXCEPT ![t] = [NoThread EXCEPT !.kind = kind,
                 !.pc = IF kind = "api" THEN "headers" ELSE "wait"]]
    /\ UNCHANGED <<now, last_call_time, lock, token_ok, record_gap, outside>>
    /\ NoDispatch

\* _get_headers(): _check_token() calls connect() when the credential is
\* missing or near expiry; connect() posts the token request directly,
\* not through the RateLimiter.
GetHeaders(t, conn_ok) ==
    /\ th[t].pc = "headers"
    /\ token_ok => conn_ok
    /\ IF token_ok
       THEN /\ NoDispatch
            /\ UNCHANGED token_ok
            /\ th' = [th EXCEPT ![t].pc =
                         IF th[t].kind = "api" THEN "wait" ELSE "send"]
       ELSE /\ Dispatch
            /\ token_ok' = conn_ok
            /\ th' = [th EXCEPT ![t].pc =
                         IF th[t].kind = "api" THEN "wait" ELSE "send"]
    /\ UNCHANGED <<now, last_call_time, lock, record_gap,
                   outside>>

\* the recording of a completed wait(): last_call_time = time.time()
Record ==
    /\ last_call_time' = now
    /\ record_gap' = Min(now - last_call_time, min_interval)

\* variant of WaitEnter without the mutex: the caller reads the clock and
\* goes to sleep whether or not another caller is inside wait()
WaitEnter_unlocked(t) ==
    /\ th[t].pc = "wait"
    /\ IF now - last_call_time < min_interval
       THEN /\ th' = [th EXCEPT ![t].pc = "limited", ![t].reply = "-",
                         ![t].wake = now + (min_interval - (now - last_call_time))]
            /\ UNCHANGED <<last_call_time, record_gap>>
       ELSE /\ Record
            /\ th' = [th EXCEPT ![t] = after_wait(th[t])]
    /\ UNCHANGED <<now, lock, token_ok, outside>>
    /\ NoDispatch

\* RateLimiter.wait(), entry: take the lock, read the clock, and either
\* record at once or go to sleep for the rest of the interval, lock held.
WaitEnter(t) ==
    /\ th[t].pc = "wait"
    /\ lock = "free"
    /\ IF now - last_call_time < min_interval
       THEN /\ lock' = t
            /\ th' = [th EXCEPT ![t].pc = "limited", ![t].reply = "-",
                         ![t].wake = now + (min_interval - (now - last_call_time))]
            /\ UNCHANGED <<last_call_time, record_gap>>
       ELSE /\ Record
            /\ th' = [th EXCEPT ![t] = after_wait(th[t])]
            /\ UNCHANGED lock
    /\ UNCHANGED <<now, token_ok, outside>>
    /\ NoDispatch

\* RateLimiter.wait(), after the sleep: record and release the lock
WaitLeave(t) ==
    /\ th[t].pc = "limited"
    /\ now >= th[t].wake
    /\ Record
    /\ lock' = "free"
    /\ th' = [th EXCEPT ![t] = after_wait(th[t])]
    /\ UNCHANGED <<now, token_ok, outside>>
    /\ NoDispatch

\* time.sleep(backoff_time) is over
BackoffOver(t) ==
    /\ th[t].pc = "backoff"
    /\ now >= th[t].wake
    /\ th' = [th EXCEPT ![t].wake = 0, ![t].pc =
                  IF th[t].kind = "api" THEN "send" ELSE "headers"]
    /\ UNCHANGED <<now, last_call_time, lock, token_ok, record_gap, outside>>
    /\ NoDispatch

\* requests.get() / requests.post(): the request leaves
Send(t) ==
    /\ th[t].pc = "send"
    /\ Dispatch
    /\ th' = [th EXCEPT ![t].pc = "reply"]
    /\ UNCHANGED <<now, last_call_time, lock, token_ok, record_gap, outside>>

\* the answer arrives and the attempt loop reacts to it
Reply(t, reply) ==
    /\ th[t].pc = "reply"
    /\ LET re == reaction(th[t].kind, reply, th[t].attempt)
           r  == [th[t] EXCEPT !.reply = reply,
                      !.refused = IF reply = "auth" THEN th[t].refused + 1
                                  ELSE th[t].refused]
       IN th' = [th EXCEPT ![t] =
                   CASE re = "retry" ->
                          [r EXCEPT !.pc = "wait", !.attempt = r.attempt + 1]
                     [] re = "return_ok" ->
                          [r EXCEPT !.pc = "done", !.result = "ok"]
                     [] OTHER ->
                          [r EXCEPT !.pc = "done", !.result = "fail"]]
    /\ UNCHANGED <<now, last_call_time, lock, token_ok, record_gap, outside>>
    /\ NoDispatch

\* the caller has the result
CallReturn(t) ==
    /\ th[t].pc = "done"
    /\ th' = [th EXCEPT ![t] = NoThread]
    /\ UNCHANGED <<now, last_call_time, lock, token_ok, record_gap, outside>>
    /\ NoDispatch

\* the credential comes within 300 s of token_expiry
TokenExpires ==
    /\ token_ok
    /\ token_ok' = FALSE
    /\ UNCHANGED <<now, last_call_time, lock, th, record_gap, outside>>
    /\ NoDispatch

\* the wall clock advances
Tick ==
    /\ now < StartTime + MaxTicks
    /\ now' = now + 1
    /\ since_dispatch' = Min(since_dispatch + 1, min_interval)
    /\ UNCHANGED <<last_call_time, lock, th, token_ok, record_gap, last_gap, outside>>

NextGateway ==
    \/ \E t \in Threads : \E kind \in Kinds(t) : CallStart(t, kind)
    \/ \E t \in Threads, conn_ok \in BOOLEAN : GetHeaders(t, conn_ok)
    \/ \E t \in Threads : WaitEnter(t)
    \/ \E t \in Threads : WaitLeave(t)
    \/ \E t \in Threads : BackoffOver(t)
    \/ \E t \in Threads : Send(t)
    \/ \E t \in Threads, reply \in Replies : Reply(t, reply)
    \/ \E t \in Threads : CallReturn(t)
    \/ TokenExpires
    \/ Tick

InitGateway == Init /\ tod = "pre" /\ max_positions = MaxPositionsCfg

SpecGateway == InitGateway /\ [][NextGateway]_vars

\* ================================================= the credential alone
\* connect() and _load_token() on their own: a run starts with some cache
\* file on disk, or none, and connects, possibly again later
\* (_check_token() calls connect() too), while the wall clock advances.
\* In this specification a tick of `now` is one second.

\* the expiry recorded in a cache file: missing (0), or around the margin
FileExpiries == {0} \cup {StartTime + token_margin + d : d \in (0 - 1)..(MaxElapsed + 1)}

\* the cache files a run may find
TokenFiles == {NoFile} \cup {saved_token(tk, e, tk.app_key) : tk \in Tokens, e \in FileExpiries}

\* _load_token(): TRUE when the cached credential is taken over
load_token(file, key, t) ==
    IF file = NoFile THEN FALSE
    ELSE IF file.app_key # key THEN FALSE
    ELSE IF t >= file.expiry - token_margin THEN FALSE
    ELSE TRUE

InitConnect ==
    /\ pc = "start"
    /\ positions = [c \in Codes |-> NoPos]
    /\ account_balance = initial_account_balance
    /\ daily_pnl = 0
    /\ max_positions = MaxPositionsCfg
    /\ overnight_hold = overnight_hold_default
    /\ tod = "pre"
    /\ dayChanged = FALSE
    /\ since_sync = 0
    /\ cands = <<>>
    /\ todo = {}
    /\ trade = NoTrade
    /\ poll_elapsed = 0
    /\ api_positions = None
    /\ sync_log = NoLog
    /\ last = "init"
    /\ last_call = NoCall
    /\ rprice = [c \in Codes |-> InitPrice]
    /\ rhold = [c \in Codes |-> NoRow]
    /\ orders = {}
    /\ norders = 0
    /\ now = StartTime
    /\ GatewayInit
    /\ RiskInit
    /\ app_key \in Keys
    /\ app_secret \in Secrets
    /\ token_file \in TokenFiles
    /\ access_token = NoToken
    /\ token_expiry = 0
    /\ connect_log = NoLog

\* connect(): take over the cached credential, or request a new one and,
\* when the remote issues it, keep and persist it.  reply_ok is the
\* remote's answer to the token request.
Connect(reply_ok) ==
    /\ load_token(token_file, app_key, now) => reply_ok
    /\ connect_log' = [file0 |-> token_file, time |-> now,
                       reused |-> load_token(token_file, app_key, now),
                       requested |-> ~load_token(token_file, app_key, now),
                       reply_ok |-> reply_ok]
    /\ IF load_token(token_file, app_key, now)
       THEN /\ access_token' = token_file.access_token
            /\ token_expiry' = token_file.expiry
            /\ UNCHANGED token_file
       ELSE IF reply_ok
       THEN /\ access_token' = [app_key |-> app_key, app_secret |-> app_secret]
            /\ token_expiry' = now + expires_in
            /\ token_file' = saved_token(access_token', token_expiry', app_key)
       ELSE UNCHANGED <<access_token, token_expiry, token_file>>
    /\ UNCHANGED <<app_key, app_secret, ctl, config, now, clock,
                   remote, gateway, risk>>

NextConnect ==
    \/ \E reply_ok \in BOOLEAN : Connect(reply_ok)
    \/ Elapse

SpecConnect == InitConnect /\ [][NextConnect]_vars

\* ================================================= the RiskManager alone
\* The decision functions of RiskManager applied to arguments drawn from
\* grids that straddle their thresholds, one call in a behaviour.

\* entry prices, and the prices around the thresholds they give: -2.5 % is
\* 195 and 975, +5 % is 210 and 1050, -1.5 % of a high is 197 and 985
RiskEntries == {200, 1000}
RiskPrices == {195, 196, 197, 198, 200, 204, 209, 210, 220, 975, 985, 1000, 1050}
\* moving-average values; 0 stands for ma_value = None
RiskAverages == {0, 198, 1000}
\* current_time; "-" stands for None
RiskTimes == {"-", "am", "eod"}

\* check_stop_loss(), check_take_profit(), calculate_trailing_stop() and
\* should_close_position() on the same arguments
CheckExit(hold, entry, current, highest, ma, t) ==
    /\ risk_in = NoLog
    /\ risk_in' = [fn |-> "exit", hold |-> hold, entry_price |-> entry,
                   current_price |-> current, highest_price |-> highest,
                   ma_value |-> ma, current_time |-> t]
    /\ risk_out' = [stop_loss |-> check_stop_loss(entry, current, ma),
                    take_profit |-> check_take_profit(entry, current),
                    trailing |-> calculate_trailing_stop(entry, highest, current),
                    close |-> should_close_position(hold, entry, current,
                                                    highest, ma, t)]
    /\ UNCHANGED <<ctl, config, now, clock, remote, gateway, cred>>

SizePrices == {0 - 5, 0, 6, 100, 103}
SizeBalances == {0 - 1000, 0, 3000, 9900, 1000000, 10000000}
SizeRisks == {0 - 20, 0, 10, 20, 50}

PositionSize(stock_price, balance, risk_x10) ==
    /\ risk_in = NoLog
    /\ risk_in' = [fn |-> "size", stock_price |-> stock_price,
                   account_balance |-> balance, risk_x10 |-> risk_x10]
    /\ risk_out' = calculate_position_size(stock_price, balance, risk_x10)
    /\ UNCHANGED <<ctl, config, now, clock, remote, gateway, cred>>

LossPnls == {0 - 600000, 0 - 500000, 0 - 50001, 0 - 50000, 0 - 49999, 0, 100000}
LossBalances == {0 - 1000000, 0, 1000000, 10000000}

DailyLoss(pnl, balance) ==
    /\ risk_in = NoLog
    /\ risk_in' = [fn |-> "daily", daily_pnl |-> pnl,
                   account_balance |-> balance]
    /\ risk_out' = [limit_reached |-> check_daily_loss_limit(pnl, balance)]
    /\ UNCHANGED <<ctl, config, now, clock, remote, gateway, cred>>

TotalValues == {0 - 1000000, 0, 5, 1000000, 10000000}
InvestedAmounts == {0, 1, 100000, 200000, 1500000, 2000000}
OrderAmounts == {0, 1, 100000, 500000, 1000000}

Concentration(current_invested, new_order_amount, total_account_value) ==
    /\ risk_in = NoLog
    /\ risk_in' = [fn |-> "concentration",
                   current_invested |-> current_invested,
                   new_order_amount |-> new_order_amount,
                   total_account_value |-> total_account_value]
    /\ risk_out' = check_stock_concentration(current_invested,
                                             new_order_amount,
                                             total_account_value)
    /\ UNCHANGED <<ctl, config, now, clock, remote, gateway, cred>>

NextRisk ==
    \/ \E hold \in BOOLEAN, entry \in RiskEntries, current, highest \in RiskPrices, ma \in RiskAverages, t \in RiskTimes : CheckExit(hold, entry, current, highest, ma, t)
    \/ \E stock_price \in SizePrices, balance \in SizeBalances, risk_x10 \in SizeRisks : PositionSize(stock_price, balance, risk_x10)
    \/ \E pnl \in LossPnls, balance \in LossBalances : DailyLoss(pnl, balance)
    \/ \E current_invested \in InvestedAmounts, new_order_amount \in OrderAmounts, total_account_value \in TotalValues : Concentration(current_invested, new_order_amount, total_account_value)

SpecRisk == InitGateway /\ [][NextRisk]_vars

\* ================================================================ claims
\* an open sell order for code c is at the remote
OpenSell(book, c) == \E o \in book : o.side = "sell" /\ o.code = c

\* C1: an exit (monitor_positions, close_all_positions) removes a position
\* from the ledger only when the remote has filled the sell order of the
\* exit; an order that is still open at the remote removes nothing.
C1_ExitRemovesOnlyAfterFill ==
    [][\A c \in Codes :
          (pc \in {"monitor", "closeall"}
             /\ positions[c] # NoPos /\ positions'[c] = NoPos)
          => ~OpenSell(orders', c)]_vars

\* C2: at most one order per code is in flight: the remote never receives
\* an order for a code while an order of an earlier call for that code is
\* still open.
C2_OneOrderInFlight == \A o \in orders : ~o.inflight

\* C3: one call of place_buy_order or place_sell_order makes the remote
\* receive at most one order, whatever the outcomes of its attempts.
C3_NoDuplicateSubmission == last_call.received <= 1

\* C4: when the confirmation poll of a buy finds the code, the ledger entry
\* of the code has the remote's average price and quantity as entry price
\* and quantity and the remote's current price as highest price, and the
\* available cash has decreased by exactly remote price x remote quantity.
C4_ConfirmedBuyUsesRemoteFill ==
    last = "buy_confirmed" =>
        /\ rhold[trade.code] # NoRow
        /\ positions[trade.code] # NoPos
        /\ positions[trade.code].entry_price = rhold[trade.code].avg
        /\ positions[trade.code].quantity = rhold[trade.code].qty
        /\ positions[trade.code].highest_price = rprice[trade.code]
        /\ account_balance =
              trade.balance0 - rhold[trade.code].avg * rhold[trade.code].qty

\* C4 witness: a buy was confirmed whose remote fill price differs from the
\* price the order was requested at
C4_Witness ==
    /\ last = "buy_confirmed"
    /\ positions[trade.code] # NoPos
    /\ positions[trade.code].entry_price # trade.price

\* a successful positions query of this step lists the code being bought
Listed(api, c) == api.ok /\ \E r \in api.rows : r.code = c

\* C5: during the confirmation window a step whose positions query failed
\* or does not list the bought code writes neither the ledger nor the cash,
\* and when the window ends unconfirmed the ledger entry of the code and the
\* cash are what they were before execute_trade.
C5_UnconfirmedBuyWritesNothing ==
    /\ [][(pc = "confirm" /\ ~Listed(api_positions', trade.code))
            => (positions' = positions /\ account_balance' = account_balance)
         ]_vars
    /\ [](last = "buy_unconfirmed" =>
            /\ positions[trade.code] = trade.position0
            /\ account_balance = trade.balance0)

\* C5 witness: the window ended unconfirmed although the remote had filled
\* the order (the queries that would have listed it failed)
C5_Witness ==
    /\ last = "buy_unconfirmed"
    /\ rhold[trade.code] # NoRow
    /\ rhold[trade.code].qty > 0
    /\ positions[trade.code] = NoPos

\* C6: an exit credits the cash and books the realized P&L on confirmation
\* of the fill: when monitor_positions or close_all_positions changes the
\* cash or the daily P&L, the sell order of the exit is no longer open at
\* the remote.
C6_ExitBookedOnFill ==
    [][(pc \in {"monitor", "closeall"}
          /\ (account_balance' # account_balance \/ daily_pnl' # daily_pnl))
       => ~OpenSell(orders', last_call'.code)]_vars

\* C7: in every reachable state the number of positions in the ledger is at
\* most max_positions.
C7_LedgerWithinMaxPositions == Cardinality(Held) <= max_positions

\* C8: while a code stays in the ledger its highest_price never decreases,
\* whichever step (monitoring, reconciliation, confirmed buy) writes it.
C8_HighestPriceMonotone ==
    [][\A c \in Codes :
          (positions[c] # NoPos /\ positions'[c] # NoPos)
          => positions'[c].highest_price >= positions[c].highest_price]_vars

\* C9: every position stored in the ledger has quantity > 0.
C9_StoredQuantityPositive == \A c \in Held : positions[c].quantity > 0

\* C9 witness: a reconciliation or a confirmation poll has read the remote
\* rows while the remote kept a row of quantity 0, and the ledger holds a
\* position
C9_Witness ==
    /\ last \in {"sync", "buy_confirmed"}
    /\ api_positions.ok
    /\ \E c \in Codes : rhold[c] # NoRow /\ rhold[c].qty = 0
    /\ Held # {}

\* C10: after a reconciliation whose positions query succeeded (with an
\* empty result or not), every code in the ledger is in that result.
C10_SyncRemovesMissing ==
    (last = "sync" /\ api_positions.ok)
    => \A c \in Held : \E r \in api_positions.rows : r.code = c

\* C11: a reconciliation whose positions query failed leaves the ledger as
\* it was before the reconciliation.
C11_FailedQueryKeepsLedger ==
    (last = "sync" /\ ~api_positions.ok) => positions = sync_log.positions0

\* C11 witness: the query of a reconciliation failed while the ledger held
\* a position and the remote no longer did
C11_Witness ==
    /\ last = "sync"
    /\ ~api_positions.ok
    /\ \E c \in Held : rhold[c] # NoRow /\ rhold[c].qty = 0

\* C12: after a reconciliation that adopts the remote rows, every remote
\* row (so every row whose code was not in the ledger) has a ledger entry
\* with order_no "SYNCED", the remote average price as entry price, the
\* remote quantity, and the remote current price as highest price.
C12_SyncAdoptsRemoteRows ==
    (last = "sync" /\ api_positions.ok /\ api_positions.rows # {}) =>
        \A r \in api_positions.rows :
            /\ positions[r.code] # NoPos
            /\ positions[r.code].order_no = "SYNCED"
            /\ positions[r.code].entry_price = r.avg_price
            /\ positions[r.code].quantity = r.quantity
            /\ positions[r.code].highest_price = r.current_price

\* C12 witness: a reconciliation adopted a remote row whose code was not in
\* the ledger before it, at a price other than the average price
C12_Witness ==
    /\ last = "sync"
    /\ api_positions.ok
    /\ \E r \in api_positions.rows :
          /\ sync_log.positions0[r.code] = NoPos
          /\ r.current_price # r.avg_price
          /\ positions[r.code] # NoPos

\* C13: a reconciliation run right after a reconciliation run, with both
\* positions queries successful, the same balance reply and an unchanged
\* remote account, changes no field of any position (entry price, quantity,
\* highest price, entry time, order reference) and not the cash.
C13_SyncIdempotent ==
    [][(/\ last = "sync" /\ last' = "sync" /\ now' = now
        /\ api_positions.ok /\ api_positions'.ok
        /\ sync_log'.balance_info = sync_log.balance_info
        /\ rhold' = rhold /\ rprice' = rprice)
       => (positions' = positions /\ account_balance' = account_balance)]_vars

\* C14: after a reconciliation or an hourly balance refresh the local cash
\* is the reading when the balance query succeeded with a positive reading,
\* and is what it was before when the query failed or read exactly 0.
C14_ZeroReadingKeepsCash ==
    sync_log # NoLog =>
        account_balance =
            IF /\ sync_log.balance_info.ok
               /\ sync_log.balance_info.available_amount > 0
            THEN sync_log.balance_info.available_amount
            ELSE sync_log.balance0

\* C14 witness: an hourly refresh read exactly 0 while the local cash was a
\* non-zero value other than the initial one
C14_Witness ==
    /\ last = "selected"
    /\ sync_log # NoLog
    /\ sync_log.balance_info.ok
    /\ sync_log.balance_info.available_amount = 0
    /\ sync_log.balance0 > 0
    /\ sync_log.balance0 # initial_account_balance
    /\ account_balance = sync_log.balance0

\* C15: reconciliation runs at process start; at the first tick of a new
\* calendar day, in the step that resets the daily P&L and before any order
\* of the day; and in every market-hours tick that begins at least 600 s
\* after the previous run.
C15_ReconciliationSchedule ==
    /\ [][(pc = "start" /\ pc' # pc) => last' = "sync"]_vars
    /\ [][(pc = "loop" /\ dayChanged /\ pc' # pc)
           => (last' = "sync" /\ daily_pnl' = 0 /\ norders' = norders)]_vars
    /\ [][(pc = "sync" /\ since_sync = 2 /\ pc' # pc) => last' = "sync"]_vars
    /\ [][(pc = "gate" /\ is_market_open /\ since_sync = 2 /\ pc' # pc)
           => pc' = "sync"]_vars

\* C16: any two consecutive requests that reach the remote from the
\* gateway, whichever thread sent them and retries included, are at least
\* min_interval apart.
C16_RequestsSpaced == last_gap >= min_interval

\* C17: the values RateLimiter records in last_call_time, by wait() or
\* acquire() called in sequence or from several threads, are at least
\* min_interval apart, so that N calls take at least (N-1) x min_interval;
\* and the first call of all does not wait.
C17_LimiterSpacing ==
    /\ record_gap >= min_interval
    /\ \A t \in Threads : th[t].pc = "limited" => last_call_time # 0

\* one thread has just completed acquire() and the other, having entered
\* while the interval was running, sleeps inside wait() holding the lock
C17_Witness ==
    \E t, u \in Threads :
        /\ t # u
        /\ th[t].kind = "acquire" /\ th[t].pc = "done"
        /\ th[u].pc = "limited" /\ lock = u
        /\ last_call_time = now /\ last_call_time > StartTime

\* the answers the retry policy names: rate-limited replies, timeouts and
\* connection errors
Transient == {"rate", "lost", "neterr"}

\* C18: one gateway call sends at most max_retries requests: an answer is
\* followed by another attempt only when it is a rate-limited reply, a
\* timeout or a connection error; the first success ends the call with
\* its result; the max_retries-th failed attempt ends it with the failure
\* value; and every answer either ends the call or starts the next of
\* its boundedly many attempts.
C18_BoundedRetry ==
    [][\A t \in Threads : (th[t].pc = "reply" /\ th'[t] # th[t]) =>
          /\ th[t].attempt + 1 <= max_retries
          /\ th'[t].pc = "wait" => th'[t].reply \in Transient
          /\ th'[t].reply = "ok" =>
                 (th'[t].pc = "done" /\ th'[t].result = "ok")
          /\ (th[t].attempt + 1 = max_retries /\ th'[t].reply # "ok") =>
                 (th'[t].pc = "done" /\ th'[t].result = "fail")
          /\ \/ th'[t].pc = "done"
             \/ th'[t].pc = "wait" /\ th'[t].attempt = th[t].attempt + 1
                                   /\ th'[t].attempt < max_retries]_vars

\* C19: an error reply of the remote that is not a rate-limit reply (a
\* business-rule rejection) ends the call at once with the failure value:
\* _call_api(), place_buy_order() and place_sell_order() send nothing
\* after it, so a call whose first answer is a rejection has sent exactly
\* one request.
C19_RejectNotRetried ==
    [][\A t \in Threads :
          (th[t].pc = "reply" /\ th'[t].reply = "reject" /\ th'[t] # th[t]) =>
              /\ th'[t].pc = "done"
              /\ th'[t].result = "fail"
              /\ th'[t].attempt = th[t].attempt]_vars

\* an order call has returned the failure on a rejection of its first and
\* only request
C19_Witness ==
    \E t \in Threads :
        /\ th[t].kind = "order" /\ th[t].pc = "done"
        /\ th[t].reply = "reject" /\ th[t].result = "fail"
        /\ th[t].attempt = 0

\* C20: when the remote refuses a request because the credential is
\* invalid or expired, the call does not end on the first such refusal: it
\* goes on to refresh the credential and send the request once more; the
\* second refusal ends the call with the failure value.
C20_AuthRefreshRetry ==
    [][\A t \in Threads :
          (th[t].pc = "reply" /\ th'[t].reply = "auth" /\ th'[t] # th[t]) =>
              IF th[t].refused = 0
              THEN th'[t].pc # "done"
              ELSE th'[t].pc = "done" /\ th'[t].result = "fail"]_vars

\* C21: connect() takes over the persisted credential exactly when it was
\* issued for the key and the secret of this run and expires more than
\* token_margin (5 minutes) from now; otherwise it requests a new one, and
\* the credential the remote issues is the one persisted.
C21_CachedCredentialReuse ==
    connect_log # NoLog =>
        LET f == connect_log.file0 IN
        /\ connect_log.reused <=>
               /\ f # NoFile
               /\ f.access_token.app_key = app_key
               /\ f.access_token.app_secret = app_secret
               /\ f.expiry - connect_log.time > token_margin
        /\ ~connect_log.reused =>
               /\ connect_log.requested
               /\ connect_log.reply_ok =>
                      /\ token_file # f
                      /\ token_file = saved_token(access_token, token_expiry, app_key)
                      /\ access_token = [app_key |-> app_key, app_secret |-> app_secret]

C23_StopLossFirst ==
    (risk_in # NoLog /\ risk_in.fn = "exit") =>
        ((risk_in.current_price - risk_in.entry_price) * 1000
              <= (0 - stop_loss_percent_x10) * risk_in.entry_price
           => (risk_out.close.should_close /\ risk_out.close.reason = "stop_loss"))

\* a position exactly at the stop-loss threshold, at the end of the day,
\* has been closed for stop-loss
C23_Witness ==
    /\ risk_in # NoLog /\ risk_in.fn = "exit"
    /\ (risk_in.current_price - risk_in.entry_price) * 1000
           = (0 - stop_loss_percent_x10) * risk_in.entry_price
    /\ risk_in.current_time = "eod"
    /\ risk_out.close.reason = "stop_loss"

\* C24: should_close_position returns the first rule that matches, in the
\* order stop-loss, take-profit, trailing-stop, forced liquidation at the
\* end of the day; forced liquidation is looked at only when a time is
\* given and it is at or after 15:20; with no rule matching the answer is
\* not to close.
C24_FirstRuleWins ==
    (risk_in # NoLog /\ risk_in.fn = "exit") =>
        LET eod == /\ risk_in.current_time # "-"
                   /\ TimeRank(risk_in.current_time) >= TimeRank("eod")
        IN
        /\ risk_out.close.reason =
              (IF risk_out.stop_loss.should_stop THEN "stop_loss"
               ELSE IF risk_out.take_profit THEN "take_profit"
               ELSE IF risk_out.trailing THEN "trailing_stop"
               ELSE IF eod /\ risk_out.close.should_close THEN "market_close"
               ELSE "-")
        /\ risk_out.close.should_close <=> risk_out.close.reason # "-"
        /\ risk_out.close.reason = "market_close" => eod
        /\ (/\ ~risk_out.stop_loss.should_stop /\ ~risk_out.take_profit
            /\ ~risk_out.trailing /\ ~eod) => ~risk_out.close.should_close
        /\ (eod /\ ~risk_in.hold) => risk_out.close.should_close

\* stop-loss (by the moving average) and take-profit both match, and the
\* answer is the stop-loss
C24_Witness ==
    /\ risk_in # NoLog /\ risk_in.fn = "exit"
    /\ risk_out.stop_loss.should_stop /\ risk_out.take_profit
    /\ risk_out.close.reason = "stop_loss"

\* C25 as stated: check_stop_loss and check_take_profit never both fire.
C25_ExitsExclusive ==
    (risk_in # NoLog /\ risk_in.fn = "exit") =>
        ~(risk_out.stop_loss.should_stop /\ risk_out.take_profit)

\* C25, amended: check_stop_loss and check_take_profit both fire only
\* when a moving average is given and the price is below it; the two
\* percent conditions never hold together.
C25_ExitsExclusiveWithoutAverage ==
    (risk_in # NoLog /\ risk_in.fn = "exit") =>
        ((risk_out.stop_loss.should_stop /\ risk_out.take_profit)
           => (/\ risk_in.ma_value # 0
               /\ risk_in.current_price < risk_in.ma_value
               /\ risk_out.stop_loss.reason = "ma_break"))

\* without a moving average, take-profit has fired and stop-loss has not
C25_Witness ==
    /\ risk_in # NoLog /\ risk_in.fn = "exit"
    /\ risk_in.ma_value = 0
    /\ risk_out.take_profit /\ ~risk_out.stop_loss.should_stop

\* C27: calculate_trailing_stop fires exactly when the trailing stop is
\* enabled, current <= highest x (1 - trailingPct / 100) and
\* current > entry; it never fires for a position in loss.
C27_TrailingStopRule ==
    (risk_in # NoLog /\ risk_in.fn = "exit") =>
        /\ risk_out.trailing <=>
              /\ trailing_stop
              /\ risk_in.current_price * 1000
                    <= risk_in.highest_price * (1000 - trailing_stop_percent_x10)
              /\ risk_in.current_price > risk_in.entry_price
        /\ risk_in.current_price <= risk_in.entry_price => ~risk_out.trailing

\* the price is exactly at the trailing-stop price, above the entry, and
\* the trailing stop has fired
C27_Witness ==
    /\ risk_in # NoLog /\ risk_in.fn = "exit"
    /\ risk_in.current_price * 1000
          = risk_in.highest_price * (1000 - trailing_stop_percent_x10)
    /\ risk_in.current_price > risk_in.entry_price
    /\ risk_out.trailing

\* C26: for every price, balance and risk percent calculate_position_size
\* returns quantity >= 0 and amount = quantity x price <= max_position_size,
\* quantity being the smaller of floor(riskAmount / (price x stopLossPct / 100))
\* and floor(max_position_size / price), and quantity 0 when balance <= 0
\* or price <= 0.
C26_PositionSizeBounds ==
    (risk_in # NoLog /\ risk_in.fn = "size") =>
        /\ risk_out.quantity >= 0
        /\ risk_out.amount = risk_out.quantity * risk_in.stock_price
        /\ risk_out.amount <= max_position_size
        /\ (risk_in.account_balance <= 0 \/ risk_in.stock_price <= 0)
              => risk_out.quantity = 0
        /\ (risk_in.account_balance > 0 /\ risk_in.stock_price > 0)
              => risk_out.quantity =
                   Min((risk_in.account_balance * risk_in.risk_x10)
                          \div (risk_in.stock_price * stop_loss_percent_x10),
                       max_position_size \div risk_in.stock_price)

\* C28: check_daily_loss_limit reports the limit reached exactly when the
\* baseline balance is > 0 and dailyPnl / baseline x 100 <= dailyLossLimitPct;
\* with a baseline <= 0 it never reports it.
C28_DailyLossLimitRule ==
    (risk_in # NoLog /\ risk_in.fn = "daily") =>
        /\ risk_out.limit_reached <=>
              /\ risk_in.account_balance > 0
              /\ risk_in.daily_pnl * 1000
                    <= daily_loss_limit_x10 * risk_in.account_balance
        /\ risk_in.account_balance <= 0 => ~risk_out.limit_reached

\* the daily loss is exactly at the limit of a positive baseline, and the
\* limit is reported reached
C28_Witness ==
    /\ risk_in # NoLog /\ risk_in.fn = "daily"
    /\ risk_in.account_balance > 0
    /\ risk_in.daily_pnl * 1000 = daily_loss_limit_x10 * risk_in.account_balance
    /\ risk_out.limit_reached

\* C29 as stated: for every currentInvested, newOrderAmount and totalAssets
\* check_stock_concentration allows the order exactly when
\* currentInvested + newOrderAmount <= totalAssets x maxSingleStockRatio.
C29_ConcentrationRule ==
    (risk_in # NoLog /\ risk_in.fn = "concentration") =>
        (risk_out.allowed <=>
           (risk_in.current_invested + risk_in.new_order_amount) * 10
              <= risk_in.total_account_value * max_single_stock_ratio_x10)

\* C29, amended: for totalAssets > 0 the order is allowed exactly when
\* currentInvested + newOrderAmount <= totalAssets x maxSingleStockRatio;
\* for totalAssets <= 0 it is never allowed.
C29_ConcentrationRulePositiveAssets ==
    (risk_in # NoLog /\ risk_in.fn = "concentration") =>
        /\ risk_in.total_account_value > 0 =>
              (risk_out.allowed <=>
                 (risk_in.current_invested + risk_in.new_order_amount) * 10
                    <= risk_in.total_account_value * max_single_stock_ratio_x10)
        /\ risk_in.total_account_value <= 0 => ~risk_out.allowed

\* an order that brings the stock exactly to the cap of a positive total
\* has been allowed
C29_Witness ==
    /\ risk_in # NoLog /\ risk_in.fn = "concentration"
    /\ risk_in.total_account_value > 0
    /\ risk_in.new_order_amount > 0
    /\ (risk_in.current_invested + risk_in.new_order_amount) * 10
          = risk_in.total_account_value * max_single_stock_ratio_x10
    /\ risk_out.allowed

\* the daily loss is at or beyond the limit of a positive baseline
LimitReached ==
    /\ account_balance > 0
    /\ daily_pnl * 1000 <= daily_loss_limit_x10 * account_balance

\* C30: once the daily-loss limit is reported reached in a tick, no buy
\* order is submitted in that tick or in a later tick of the same day: a
\* tick that begins with the limit reached reports it at the gate and ends
\* there, without an order, and the limit stays reached from tick to tick
\* until the reset of daily_pnl at the day rollover.
C30_DailyLossBreaker ==
    [][(pc \in {"loop", "gate"} /\ LimitReached) =>
          /\ pc' \in {"loop", "gate"}
          /\ norders' = norders
          /\ LimitReached' \/ (pc = "loop" /\ dayChanged /\ daily_pnl' = 0)
          /\ (pc = "gate" /\ is_market_open) =>
                (last' = "daily_limit" /\ pc' = "loop")]_vars

\* the limit has been reported in an earlier tick, the day has not
\* changed and a new tick has reached the gate with the market open
C30_Witness ==
    /\ pc = "gate" /\ is_market_open /\ LimitReached
    /\ last = "tick"
    /\ since_sync = 2


\* C31: risk exits are always enforced.  A tick that runs while the market
\* is open, with a position in the ledger, goes on to monitor_positions()
\* whatever the daily-loss gate says, and every monitored position whose
\* quote is obtained and for which should_close_position says to close has
\* a sell order submitted in that tick.
C31_RiskExitsEnforced ==
    [][/\ (pc = "gate" /\ is_market_open /\ Held # {}) => pc' # "loop"
       /\ (pc = "trade" /\ cands = <<>> /\ Held # {}) =>
             (pc' = "monitor" /\ todo' = Held)
       /\ (pc = "monitor" /\ pc' = "monitor" /\ todo' # todo
             /\ last' # "price_failed") =>
             LET c == CHOOSE c \in todo : c \notin todo'
                 highest == Max(positions[c].highest_price, rprice[c])
                 sc == should_close_position(overnight_hold,
                           positions[c].entry_price, rprice[c], highest, 0, tod)
             IN  sc.should_close =>
                    /\ last' \in {"sell_booked", "sell_failed"}
                    /\ last_call'.side = "sell" /\ last_call'.code = c
                    /\ last_call'.received > 0 => norders' > norders]_vars

\* position c is one the overnight policy lets stay: the profit at the
\* current quote is at least overnight_min_profit and neither stop-loss,
\* take-profit nor the trailing stop fires (the market status passed by
\* should_close_position is always 'normal')
OvernightEligible(c) ==
    /\ positions[c] # NoPos
    /\ LET position == update_highest(positions[c], rprice[c]) IN
       /\ check_overnight_eligibility(overnight_hold, position.entry_price,
                                      rprice[c], "normal")
       /\ ~check_stop_loss(position.entry_price, rprice[c], 0).should_stop
       /\ ~check_take_profit(position.entry_price, rprice[c])
       /\ ~calculate_trailing_stop(position.entry_price,
                                   position.highest_price, rprice[c])

\* C32: with overnight hold enabled, a position that the overnight policy
\* lets stay is kept in the ledger by the monitoring and liquidation steps
\* of a tick at or after 15:20, and no sell order is submitted for it.
C32_OvernightHoldKept ==
    [][\A c \in Codes :
          (/\ overnight_hold
           /\ TimeRank(tod) >= TimeRank("eod")
           /\ pc \in {"monitor", "closeall"}
           /\ c \in todo /\ c \notin todo'
           /\ last' # "price_failed"
           /\ OvernightEligible(c))
          => (/\ positions'[c] # NoPos
              /\ last' \notin {"sell_booked", "sell_failed"}
              /\ norders' = norders)]_vars

\* C33: a buy order is submitted only for a code that has no position in
\* the ledger, so that a confirmed buy never overwrites the entry price,
\* entry time, order reference or highest price of an existing position.
C33_BuyOnlyFromNone ==
    [][/\ (pc = "trade" /\ last' \in {"buy_submitted", "buy_failed"}) =>
             positions[last_call'.code] = NoPos
       /\ (pc = "confirm" /\ last' = "buy_confirmed") =>
             positions[trade.code] = NoPos]_vars

\* a step of the confirmation poll that asked and did not confirm
PollAgain ==
    /\ pc = "confirm" /\ pc' = "confirm"
    /\ last' \in {"poll_absent", "poll_failed"}
    /\ <<last, poll_elapsed>>' # <<last, poll_elapsed>>

\* C34: the confirmation poll always terminates.  It ends at the first
\* successful positions query that lists the code, and otherwise when the
\* window of 20 s is over, after at most 10 queries, one per interval of
\* 2 s; a failed query uses up its interval like any other.
C34_PollTerminates ==
    /\ [](pc = "confirm" => poll_elapsed <= confirm_timeout_seconds)
    /\ [][/\ PollAgain =>
              /\ poll_elapsed < confirm_timeout_seconds
              /\ poll_elapsed' = poll_elapsed + confirm_interval_seconds
              /\ poll_elapsed' \div confirm_interval_seconds
                    <= confirm_timeout_seconds \div confirm_interval_seconds
              /\ ~(api_positions'.ok /\ Listed(api_positions', trade.code))
          /\ (pc = "confirm" /\ last' = "buy_confirmed") =>
              /\ poll_elapsed < confirm_timeout_seconds
              /\ api_positions'.ok /\ Listed(api_positions', trade.code)
              /\ pc' = "trade"
          /\ (pc = "confirm" /\ last' = "buy_unconfirmed") =>
              (poll_elapsed = confirm_timeout_seconds /\ pc' = "trade")]_vars
    /\ (pc = "confirm") ~> (pc = "trade")

\* ten queries have been made, the last of them failed, and the window is
\* over
C34_Witness ==
    /\ pc = "confirm"
    /\ poll_elapsed = confirm_timeout_seconds
    /\ last = "poll_failed"

\* C35: daily_pnl changes only by the P&L of an exit, quantity x (exit
\* price - entry price), added when monitor_positions or
\* close_all_positions removes the position, and by the reset to 0 at the
\* day rollover; buy submissions, buy confirmations, reconciliations and
\* balance refreshes leave it unchanged.
C35_DailyPnlFrame ==
    [][/\ daily_pnl' # daily_pnl =>
            \/ /\ pc \in {"monitor", "closeall"}
               /\ last' = "sell_booked"
               /\ LET c == last_call'.code IN
                  /\ positions[c] # NoPos /\ positions'[c] = NoPos
                  /\ daily_pnl' = daily_pnl + positions[c].quantity
                                     * (rprice[c] - positions[c].entry_price)
            \/ pc = "loop" /\ dayChanged /\ daily_pnl' = 0
       /\ (/\ pc \in {"start", "sync", "select", "trade", "confirm"}
           /\ last' \in {"sync", "no_sync", "selected", "buy_submitted",
                          "buy_failed", "buy_confirmed", "buy_unconfirmed",
                          "poll_absent", "poll_failed"})
            => daily_pnl' = daily_pnl]_vars

\* a buy has been submitted while daily_pnl carried the P&L of an earlier
\* exit
C35_Witness ==
    /\ last = "buy_failed"
    /\ last_call.side = "buy"
    /\ daily_pnl # 0

\* a step in which execute_trade calls place_buy_order
BuySubmitted == pc = "trade" /\ last' \in {"buy_submitted", "buy_failed"}

CallOrders == (norders - last_call.received + 1)..norders

\* C37: a buy that execute_trade records as confirmed was filled: when the
\* poll confirms a buy, an order that the call submitted has been filled
\* (is no longer open at the remote), so that the holding found comes from
\* that call and not from an older holding of the code.
C37_ConfirmedBuyWasFilled ==
    [][(pc = "confirm" /\ last' = "buy_confirmed") =>
          \E k \in CallOrders : ~\E o \in orders : o.no = k]_vars

\* C38: an order submission that fails leaves the ledger, the local cash
\* and daily_pnl as they were when the order was placed (in
\* monitor_positions, after the highest_price update that precedes the
\* decision); a failed buy starts no confirmation poll and a failed sell
\* keeps the position in the ledger.
C38_FailedSubmissionFrame ==
    [][/\ (pc = "trade" /\ last' = "buy_failed") =>
            /\ ~last_call'.success
            /\ positions' = positions
            /\ account_balance' = account_balance /\ daily_pnl' = daily_pnl
            /\ pc' = "trade" /\ poll_elapsed' = 0
       /\ (pc = "monitor" /\ last' = "sell_failed" /\ todo' # todo) =>
            LET c == last_call'.code IN
            /\ ~last_call'.success
            /\ positions[c] # NoPos /\ positions'[c] # NoPos
            /\ positions' = [positions EXCEPT
                                ![c] = update_highest(@, rprice[c])]
            /\ account_balance' = account_balance /\ daily_pnl' = daily_pnl
       /\ (pc = "closeall" /\ last' = "sell_failed" /\ todo' # todo) =>
            /\ ~last_call'.success
            /\ positions[last_call'.code] # NoPos
            /\ positions' = positions
            /\ account_balance' = account_balance
            /\ daily_pnl' = daily_pnl]_vars

\* a sell of monitor_positions has failed although the remote received the
\* order, and the position is still in the ledger
C38_Witness ==
    /\ pc = "monitor"
    /\ last = "sell_failed"
    /\ last_call.received > 0
    /\ positions[last_call.code] # NoPos

\* C39: whatever the risk percent, calculate_position_size returns an
\* amount no larger than the available balance it was given (a balance of
\* zero or less gives amount 0 and is left aside).
C39_AmountWithinBalance ==
    (risk_in # NoLog /\ risk_in.fn = "size" /\ risk_in.account_balance > 0)
        => risk_out.amount <= risk_in.account_balance

====
